---- MODULE Spec2Model ----
(***************************************************************************)
(* The browser client of the Aavaaz clinical interaction system: the       *)
(* AudioStreamer component (WebSocket + getUserMedia + MediaRecorder +     *)
(* FileReader) and the App component that hosts it.                        *)
(*                                                                         *)
(* JavaScript runs one task at a time, so every action below is one task   *)
(* of the event loop: a DOM/WebSocket/MediaRecorder/FileReader callback    *)
(* together with the promise continuations (microtasks) it releases.       *)
(* The k-th call of startRecording creates socket k and, when it gets that *)
(* far, media stream k and recorder k.                                     *)
(***************************************************************************)
EXTENDS Integers, Sequences, FiniteSets

\* ------------------------------------------------------------------ bounds
MaxStarts == 2      \* calls of startRecording explored
MaxBuffers == 2     \* non-empty audio buffers explored
MaxInboundStarts == 1   \* calls of startRecording explored on the inbound side

Starts == 1..MaxStarts
NoRef == 0          \* a ref whose .current is null

\* ------------------------------------------------------ inbound vocabulary
Texts == {"t1", "t2"}
\* data.report by shape: an object of the report schema, a non-empty string,
\* an object with an error field, the empty string, null, a non-zero number,
\* an array.
Reports == {"structured", "raw", "error", "empty", "null", "number", "array"}
\* The reports a backend that works sends.
SessionReports == {"structured", "raw"}
\* event.data of a WebSocket message: text JSON.parse throws on, or the
\* JSON of an event object with the fields its type carries.
Malformed == [json |-> FALSE, type |-> "", text |-> "", report |-> "null"]
Event(type, text, report) ==
    [json |-> TRUE, type |-> type, text |-> text, report |-> report]
TranscriptFrames ==
    {Event(t, x, "null") : t \in {"partial_transcript", "final_transcript"},
                           x \in Texts}
ReportFrames == {Event("insight_report", "", r) : r \in Reports}
\* "" is the type of an event object that carries no type field.
OtherFrames ==
    {Event(t, "", "null") : t \in {"status_update", "error", "unknown_kind", ""}}
InboundFrames ==
    {Malformed} \cup TranscriptFrames \cup ReportFrames \cup OtherFrames
\* The frames that can touch the recording session (all but the transcript
\* texts, which only App's transcript fields see).
SessionFrames ==
    {f \in InboundFrames \ TranscriptFrames :
        f.type = "insight_report" => f.report \in SessionReports}
\* No frame: the task that ran last was not a ws.onmessage.
NoFrame == [json |-> FALSE, type |-> "none", text |-> "", report |-> "null"]

VARIABLES
    mounted,            \* the AudioStreamer instance is mounted
    isRecording,        \* AudioStreamer useState
    isConnecting,       \* AudioStreamer useState
    websocketRef,       \* AudioStreamer useRef: socket id or NoRef
    mediaRecorderRef,   \* AudioStreamer useRef: recorder id or NoRef
    appIsRecording,     \* App useState isRecording
    connectionStatus,   \* App useState connectionStatus
    transcript,         \* App useState
    partialTranscript,  \* App useState
    insightReport,      \* App useState ("null" when null)
    nStarts,            \* startRecording calls made so far
    startPc,            \* per start: where the async function stands
    wsState,            \* per socket: WebSocket.readyState
    sent,               \* per socket: the frames ws.send wrote, in order
    streamState,        \* per start: the getUserMedia stream
    recState,           \* per recorder: MediaRecorder state
    readers,            \* FileReader reads in flight
    produced,           \* non-empty buffers produced so far
    everOpen,           \* history: the sockets whose onopen has fired
    lastFrame,          \* history: the frame the last task's onmessage got
    lastCall            \* history: the latest of startRecording/stopRecording

vars == <<mounted, isRecording, isConnecting, websocketRef, mediaRecorderRef,
          appIsRecording, connectionStatus, transcript, partialTranscript,
          insightReport, nStarts, startPc, wsState, sent, streamState,
          recState, readers, produced, everOpen, lastFrame, lastCall>>

audioVars == <<isRecording, isConnecting, websocketRef, mediaRecorderRef>>
appTextVars == <<transcript, partialTranscript, insightReport>>
mediaVars == <<streamState, recState, readers, produced>>

\* ------------------------------------------------------------ construction
Init ==
    /\ mounted = TRUE
    /\ isRecording = FALSE
    /\ isConnecting = FALSE
    /\ websocketRef = NoRef
    /\ mediaRecorderRef = NoRef
    /\ appIsRecording = FALSE
    /\ connectionStatus = "disconnected"
    /\ transcript = ""
    /\ partialTranscript = ""
    /\ insightReport = "null"
    /\ nStarts = 0
    /\ startPc = [k \in Starts |-> "idle"]
    /\ wsState = [k \in Starts |-> "none"]
    /\ sent = [k \in Starts |-> <<>>]
    /\ streamState = [k \in Starts |-> "none"]
    /\ recState = [k \in Starts |-> "none"]
    /\ readers = {}
    /\ produced = 0
    /\ everOpen = {}
    /\ lastFrame = NoFrame
    /\ lastCall = "none"

\* --------------------------------------------------------------- helpers
\* setState of the AudioStreamer: dropped by React once it is unmounted.
SetState(old, new) == IF mounted THEN new ELSE old

AudioFrame(buf) == [type |-> "audio", data |-> buf]
StopFrame == [type |-> "stop", data |-> 0]

\* ws.send guarded by readyState === WebSocket.OPEN: the frame is written,
\* or silently dropped.
SendIfOpen(s, frame) ==
    IF s # NoRef /\ wsState[s] = "OPEN"
    THEN [sent EXCEPT ![s] = Append(@, frame)]
    ELSE sent

\* mediaRecorderRef.current.stop() when the recorder is not inactive: the
\* recorder is inactive at once; its last dataavailable and its stop event
\* are fired by a later task.
StopRecorderIfActive ==
    IF mediaRecorderRef # NoRef /\ recState[mediaRecorderRef] = "recording"
    THEN [recState EXCEPT ![mediaRecorderRef] = "stopping"]
    ELSE recState

\* Where the async startRecording stands after its catch block has run: the
\* error is swallowed (console.error + alert) and the promise fulfils.
CatchPc == "caught"

\* ----------------------------------------------------- user: toggle button
\* startRecording up to its first await: connectWebSocket's executor.
StartRecording ==
    /\ nStarts < MaxStarts
    /\ LET k == nStarts + 1 IN
        /\ nStarts' = k
        /\ isConnecting' = SetState(isConnecting, TRUE)
        /\ connectionStatus' = "connecting"
        /\ wsState' = [wsState EXCEPT ![k] = "CONNECTING"]
        /\ websocketRef' = k
        /\ startPc' = [startPc EXCEPT ![k] = "awaitWs"]
    /\ lastCall' = "start"
    /\ UNCHANGED <<mounted, isRecording, mediaRecorderRef, appIsRecording,
                   sent, everOpen>>
    /\ UNCHANGED appTextVars
    /\ UNCHANGED mediaVars

\* stopRecording as it would behave if it also closed the socket.
StopRecordingClosesSocket ==
    /\ recState' = StopRecorderIfActive
    /\ sent' = SendIfOpen(websocketRef, StopFrame)
    /\ wsState' = IF websocketRef # NoRef /\ wsState[websocketRef] = "OPEN"
                  THEN [wsState EXCEPT ![websocketRef] = "CLOSING"]
                  ELSE wsState
    /\ isRecording' = SetState(isRecording, FALSE)
    /\ appIsRecording' = FALSE
    /\ lastCall' = "stop"
    /\ UNCHANGED <<mounted, isConnecting, websocketRef, mediaRecorderRef,
                   connectionStatus, nStarts, startPc, streamState,
                   readers, produced, everOpen>>
    /\ UNCHANGED appTextVars

StopRecording ==
    /\ recState' = StopRecorderIfActive
    /\ sent' = SendIfOpen(websocketRef, StopFrame)
    /\ isRecording' = SetState(isRecording, FALSE)
    /\ appIsRecording' = FALSE
    /\ lastCall' = "stop"
    /\ UNCHANGED <<mounted, isConnecting, websocketRef, mediaRecorderRef,
                   connectionStatus, nStarts, startPc, wsState, streamState,
                   readers, produced, everOpen>>
    /\ UNCHANGED appTextVars

\* The button exists only while mounted and not connecting.
ButtonRendered == mounted /\ ~isConnecting

HandleToggleRecording ==
    /\ ButtonRendered
    /\ \/ isRecording /\ StopRecording
       \/ ~isRecording /\ StartRecording

\* ------------------------------------------------------------- WebSocket
\* ws.onopen, then the continuation of `await connectWebSocket()` up to the
\* next await: the call of getUserMedia.
WsOnOpen(k) ==
    /\ wsState[k] = "CONNECTING"
    /\ wsState' = [wsState EXCEPT ![k] = "OPEN"]
    /\ everOpen' = everOpen \cup {k}
    /\ isConnecting' = SetState(isConnecting, FALSE)
    /\ connectionStatus' = "connected"
    /\ startPc' = [startPc EXCEPT ![k] = "awaitMedia"]
    /\ streamState' = [streamState EXCEPT ![k] = "requested"]
    /\ UNCHANGED <<mounted, isRecording, websocketRef, mediaRecorderRef,
                   appIsRecording, nStarts, sent, recState, readers, produced,
                   lastCall>>
    /\ UNCHANGED appTextVars

\* handleTranscriptUpdate as it would behave if its last branch were a plain
\* else: every event that is no transcript, report or status ends recording.
HandleTranscriptUpdateElseError(data) ==
    CASE data.type = "partial_transcript" ->
            /\ partialTranscript' = data.text
            /\ UNCHANGED <<transcript, insightReport, appIsRecording>>
      [] data.type = "final_transcript" ->
            /\ transcript' = data.text
            /\ partialTranscript' = ""
            /\ UNCHANGED <<insightReport, appIsRecording>>
      [] data.type = "insight_report" ->
            /\ insightReport' = data.report
            /\ appIsRecording' = FALSE
            /\ UNCHANGED <<transcript, partialTranscript>>
      [] data.type = "status_update" ->
            /\ UNCHANGED appTextVars
            /\ UNCHANGED appIsRecording
      [] OTHER ->
            /\ appIsRecording' = FALSE
            /\ UNCHANGED appTextVars

\* handleTranscriptUpdate as it would behave without setPartialTranscript('')
\* in its final_transcript branch.
HandleTranscriptUpdateKeepsPartial(data) ==
    CASE data.type = "partial_transcript" ->
            /\ partialTranscript' = data.text
            /\ UNCHANGED <<transcript, insightReport, appIsRecording>>
      [] data.type = "final_transcript" ->
            /\ transcript' = data.text
            /\ UNCHANGED <<partialTranscript, insightReport, appIsRecording>>
      [] data.type = "insight_report" ->
            /\ insightReport' = data.report
            /\ appIsRecording' = FALSE
            /\ UNCHANGED <<transcript, partialTranscript>>
      [] data.type = "error" ->
            /\ appIsRecording' = FALSE
            /\ UNCHANGED appTextVars
      [] OTHER ->
            /\ UNCHANGED appTextVars
            /\ UNCHANGED appIsRecording

\* App.handleTranscriptUpdate(data)
HandleTranscriptUpdate(data) ==
    CASE data.type = "partial_transcript" ->
            /\ partialTranscript' = data.text
            /\ UNCHANGED <<transcript, insightReport, appIsRecording>>
      [] data.type = "final_transcript" ->
            /\ transcript' = data.text
            /\ partialTranscript' = ""
            /\ UNCHANGED <<insightReport, appIsRecording>>
      [] data.type = "insight_report" ->
            /\ insightReport' = data.report
            /\ appIsRecording' = FALSE
            /\ UNCHANGED <<transcript, partialTranscript>>
      [] data.type = "error" ->
            /\ appIsRecording' = FALSE
            /\ UNCHANGED appTextVars
      [] OTHER ->
            /\ UNCHANGED appTextVars
            /\ UNCHANGED appIsRecording

\* ws.onmessage whose catch block would hand the caller an error event.
OnMessageReportsParseError(frame) ==
    IF frame.json
    THEN HandleTranscriptUpdate(frame)
    ELSE HandleTranscriptUpdate(Event("error", "", "null"))

\* ws.onmessage as it would behave if it coalesced partial transcripts: a
\* partial that arrives while one is on display is dropped.
OnMessageCoalesces(frame) ==
    IF frame.json
            /\ ~(frame.type = "partial_transcript" /\ partialTranscript # "")
    THEN HandleTranscriptUpdate(frame)
    ELSE UNCHANGED <<transcript, partialTranscript, insightReport,
                     appIsRecording>>

\* The body of ws.onmessage: JSON.parse, then onTranscriptUpdate; a parse
\* error is caught and logged.
OnMessage(frame) ==
    IF frame.json
    THEN HandleTranscriptUpdate(frame)
    ELSE UNCHANGED <<transcript, partialTranscript, insightReport,
                     appIsRecording>>

\* Socket k delivers a frame.
WsOnMessage(k, frame) ==
    /\ wsState[k] \in {"OPEN", "CLOSING"}
    /\ k \in everOpen
    /\ lastFrame' = frame
    /\ OnMessage(frame)
    /\ UNCHANGED <<mounted, connectionStatus, nStarts, startPc, wsState, sent,
                   everOpen, lastCall>>
    /\ UNCHANGED audioVars
    /\ UNCHANGED mediaVars

\* ws.onerror as it would behave without its reject(error) call.
OnErrorNeverRejects(k, withError) == FALSE

\* ws.onerror's reject(error) settles connectWebSocket's promise when it is
\* still pending (after resolve(ws) it does nothing).
OnErrorRejects(k, withError) == withError /\ startPc[k] = "awaitWs"

\* ws.onclose as it would behave if it opened the connection again.
SocketReconnects(k) == [wsState EXCEPT ![k] = "CONNECTING"]

\* The sockets after socket k has closed: ws.onclose and ws.onerror open
\* nothing.
SocketClosed(k) == [wsState EXCEPT ![k] = "CLOSED"]

\* The task that ends socket k: readyState becomes CLOSED, then (when the
\* connection failed) ws.onerror, then ws.onclose. A socket that never
\* opened always fails. The rejection of connectWebSocket's promise runs
\* startRecording's catch block between the two callbacks.
WsFinish(k, withError) ==
    /\ wsState[k] \in {"CONNECTING", "OPEN", "CLOSING"}
    /\ k \notin everOpen => withError
    /\ wsState' = SocketClosed(k)
    /\ startPc' = IF OnErrorRejects(k, withError)
                  THEN [startPc EXCEPT ![k] = CatchPc]
                  ELSE startPc
    /\ isConnecting' = SetState(isConnecting, FALSE)
    /\ connectionStatus' = "disconnected"
    /\ websocketRef' = NoRef
    /\ UNCHANGED <<mounted, isRecording, mediaRecorderRef, appIsRecording,
                   nStarts, sent, everOpen, lastCall>>
    /\ UNCHANGED appTextVars
    /\ UNCHANGED mediaVars

\* ------------------------------------------------- getUserMedia / recorder
\* startRecording's catch block, reached from a rejected getUserMedia or a
\* throwing MediaRecorder: only flags and status are touched.
StartCatch(k) ==
    /\ startPc' = [startPc EXCEPT ![k] = CatchPc]
    /\ isConnecting' = SetState(isConnecting, FALSE)
    /\ connectionStatus' = "disconnected"
    /\ UNCHANGED <<isRecording, appIsRecording, mediaRecorderRef, recState,
                   websocketRef, wsState>>

\* getUserMedia resolves; the rest of startRecording runs. `recorderOk` is
\* whether new MediaRecorder(...) and recorder.start(100) succeed (the
\* constructor throws NotSupportedError for an unsupported mimeType).
GetUserMediaResolve(k, recorderOk) ==
    /\ startPc[k] = "awaitMedia"
    /\ streamState' = [streamState EXCEPT ![k] = "live"]
    /\ IF recorderOk
       THEN /\ recState' = [recState EXCEPT ![k] = "recording"]
            /\ mediaRecorderRef' = k
            /\ isRecording' = SetState(isRecording, TRUE)
            /\ appIsRecording' = TRUE
            /\ startPc' = [startPc EXCEPT ![k] = "done"]
            /\ UNCHANGED <<isConnecting, connectionStatus, websocketRef,
                           wsState>>
       ELSE StartCatch(k)
    /\ UNCHANGED <<mounted, nStarts, sent, readers, produced, everOpen,
                   lastCall>>
    /\ UNCHANGED appTextVars

\* getUserMedia rejects (permission denied, no device).
GetUserMediaReject(k) ==
    /\ startPc[k] = "awaitMedia"
    /\ streamState' = [streamState EXCEPT ![k] = "denied"]
    /\ StartCatch(k)
    /\ UNCHANGED <<mounted, nStarts, sent, readers, produced, everOpen,
                   lastCall>>
    /\ UNCHANGED appTextVars

\* recorder.ondataavailable with a blob of the given size: a non-empty blob
\* is handed to a new FileReader, which closes over the start's own socket.
OnDataAvailable(k, size) ==
    IF size > 0
    THEN /\ produced < MaxBuffers
         /\ produced' = produced + 1
         /\ readers' = readers \cup {[buf |-> produced + 1, ws |-> k]}
    ELSE UNCHANGED <<produced, readers>>

\* A timeslice (100 ms) of recorder k elapses.
RecorderOnDataAvailable(k, size) ==
    /\ recState[k] = "recording"
    /\ OnDataAvailable(k, size)
    /\ UNCHANGED <<mounted, appIsRecording, connectionStatus, nStarts, startPc,
                   wsState, sent, streamState, recState, everOpen, lastCall>>
    /\ UNCHANGED audioVars
    /\ UNCHANGED appTextVars

\* The task recorder.stop() queued: the last dataavailable, then onstop,
\* which stops the stream's tracks.
RecorderStopTask(k, size) ==
    /\ recState[k] = "stopping"
    /\ OnDataAvailable(k, size)
    /\ recState' = [recState EXCEPT ![k] = "stopped"]
    /\ streamState' = [streamState EXCEPT ![k] = "stopped"]
    /\ UNCHANGED <<mounted, appIsRecording, connectionStatus, nStarts, startPc,
                   wsState, sent, everOpen, lastCall>>
    /\ UNCHANGED audioVars
    /\ UNCHANGED appTextVars

\* reader.onloadend of one pending read, whichever completes next.
ReaderOnLoadEnd(r) ==
    /\ r \in readers
    /\ readers' = readers \ {r}
    /\ sent' = SendIfOpen(r.ws, AudioFrame(r.buf))
    /\ UNCHANGED <<mounted, appIsRecording, connectionStatus, nStarts, startPc,
                   wsState, streamState, recState, produced, everOpen,
                   lastCall>>
    /\ UNCHANGED audioVars
    /\ UNCHANGED appTextVars

\* ----------------------------------------------------- report rendering
\* JavaScript truthiness of a report: null and the empty string are falsy.
Truthy(report) == report \notin {"null", "empty"}

\* InsightReport's isRaw: typeof report === 'string' || report.error
IsRaw(report) == report \in {"raw", "empty", "error"}

\* What App renders for insightReport: nothing for a falsy report (App's
\* `insightReport &&` and InsightReport's `if (!report) return null`), else
\* the raw view or the structured (tabbed) view.
ReportView(report) ==
    IF ~Truthy(report) THEN "nothing"
    ELSE IF IsRaw(report) THEN "raw"
    ELSE "structured"

\* ------------------------------------------------------------- unmounting
\* ws.close(): a socket not yet closed starts closing.
CloseSocket(s) ==
    IF s # NoRef /\ wsState[s] \in {"CONNECTING", "OPEN"}
    THEN [wsState EXCEPT ![s] = "CLOSING"]
    ELSE wsState

\* App's Back button: the session view goes away, and with it the
\* AudioStreamer, whose effect cleanup runs.
Unmount ==
    /\ mounted
    /\ mounted' = FALSE
    /\ transcript' = ""
    /\ partialTranscript' = ""
    /\ insightReport' = "null"
    /\ wsState' = CloseSocket(websocketRef)
    /\ recState' = StopRecorderIfActive
    /\ UNCHANGED <<appIsRecording, connectionStatus, nStarts, startPc, sent,
                   streamState, readers, produced, everOpen, lastCall>>
    /\ UNCHANGED audioVars

\* ------------------------------------------------------------ the program
\* A task that is no ws.onmessage.
NoInbound == lastFrame' = NoFrame

Next ==
    \/ HandleToggleRecording /\ NoInbound
    \/ \E k \in Starts : WsOnOpen(k) /\ NoInbound
    \/ \E k \in Starts, frame \in SessionFrames : WsOnMessage(k, frame)
    \/ \E k \in Starts, withError \in BOOLEAN :
            WsFinish(k, withError) /\ NoInbound
    \/ \E k \in Starts, recorderOk \in BOOLEAN :
            GetUserMediaResolve(k, recorderOk) /\ NoInbound
    \/ \E k \in Starts : GetUserMediaReject(k) /\ NoInbound
    \/ \E k \in Starts, size \in {0, 1} :
            RecorderOnDataAvailable(k, size) /\ NoInbound
    \/ \E k \in Starts, size \in {0, 1} : RecorderStopTask(k, size) /\ NoInbound
    \/ \E r \in readers : ReaderOnLoadEnd(r) /\ NoInbound
    \/ Unmount /\ NoInbound

Spec == Init /\ [][Next]_vars

\* The session lifecycle alone: starts, sockets, microphone and recorder,
\* with recorders that deliver no audio and a backend that sends nothing.
NextLifecycle ==
    \/ HandleToggleRecording /\ NoInbound
    \/ \E k \in Starts : WsOnOpen(k) /\ NoInbound
    \/ \E k \in Starts, withError \in BOOLEAN :
            WsFinish(k, withError) /\ NoInbound
    \/ \E k \in Starts, recorderOk \in BOOLEAN :
            GetUserMediaResolve(k, recorderOk) /\ NoInbound
    \/ \E k \in Starts : GetUserMediaReject(k) /\ NoInbound
    \/ \E k \in Starts : RecorderStopTask(k, 0) /\ NoInbound
    \/ Unmount /\ NoInbound

SpecLifecycle == Init /\ [][NextLifecycle]_vars

\* The inbound side: every kind of frame, on a session whose recorders
\* deliver no audio.
NextInbound ==
    \/ HandleToggleRecording /\ nStarts' <= MaxInboundStarts /\ NoInbound
    \/ \E k \in Starts : WsOnOpen(k) /\ NoInbound
    \/ \E k \in Starts, frame \in InboundFrames : WsOnMessage(k, frame)
    \/ \E k \in Starts, withError \in BOOLEAN :
            WsFinish(k, withError) /\ NoInbound
    \/ \E k \in Starts, recorderOk \in BOOLEAN :
            GetUserMediaResolve(k, recorderOk) /\ NoInbound
    \/ \E k \in Starts : GetUserMediaReject(k) /\ NoInbound
    \/ \E k \in Starts : RecorderStopTask(k, 0) /\ NoInbound
    \/ Unmount /\ NoInbound

SpecInbound == Init /\ [][NextInbound]_vars

\* ==================================================================
\* Properties
\* ==================================================================
IsAudio(f) == f.type = "audio"
IsStop(f) == f.type = "stop"
StopCount(q) == Cardinality({i \in 1..Len(q) : IsStop(q[i])})
\* Socket k reaches CLOSED in this step (its onerror/onclose callbacks run).
SocketEnds(k) == wsState[k] # "CLOSED" /\ wsState'[k] = "CLOSED"
\* Socket k ended without ever having opened.
FailedToOpen(k) == wsState[k] = "CLOSED" /\ k \notin everOpen

\* C1: on every socket the 'audio' frames appear in the order in which their
\* buffers were produced, whatever the completion order of the FileReader
\* reads.
C1_AudioFramesInProductionOrder ==
    \A k \in Starts : \A i, j \in 1..Len(sent[k]) :
        (i < j /\ IsAudio(sent[k][i]) /\ IsAudio(sent[k][j]))
            => sent[k][i].data < sent[k][j].data

\* C2: no frame ('audio' or 'stop') is written to any socket while the
\* ConnectionStatus reported to the caller is not 'connected'.
C2_NoSendUnlessConnected ==
    [][sent' # sent => connectionStatus = "connected"]_vars

\* C3: once stopRecording has been called and no start has been called
\* since, no recorder is left recording and a further stopRecording writes
\* no further 'stop' frame.
C3_SecondStopIsNoOp ==
    [][/\ lastCall' = "stop" => \A k \in Starts : recState'[k] # "recording"
       /\ lastCall = "stop" =>
            \A k \in Starts : StopCount(sent'[k]) = StopCount(sent[k])]_vars

\* C4: when a socket reports disconnected (onerror/onclose) while the
\* recording state is true, the recording state is false when that callback
\* has run.
C4_DisconnectForcesNotRecording ==
    [][((\E k \in Starts : SocketEnds(k)) /\ appIsRecording)
            => ~appIsRecording']_vars

\* C5: once an 'insight_report' event has been handled the session is idle:
\* App's and AudioStreamer's recording flags are false and no recorder is
\* capturing.
C5_InsightReportForcesIdle ==
    [][(insightReport = "null" /\ insightReport' # "null")
            => /\ ~appIsRecording'
               /\ ~isRecording'
               /\ \A k \in Starts : recState'[k] # "recording"]_vars

\* C6: on a socket no 'audio' frame is written after a 'stop' frame.
C6_NoAudioAfterStop ==
    \A k \in Starts : \A i, j \in 1..Len(sent[k]) :
        (i < j /\ IsStop(sent[k][i])) => ~IsAudio(sent[k][j])

C8_FailedStartLeavesNoOpenSocket ==
    \A k \in Starts : startPc[k] = "caught" => wsState[k] # "OPEN"

\* C9: the recording state is true only while ConnectionStatus is
\* 'connected'.
C9_RecordingOnlyWhileConnected ==
    (appIsRecording \/ isRecording) => connectionStatus = "connected"

\* C10: a start is accepted only while no earlier start is still connecting
\* or awaiting the microphone, so no two starts overlap.
C10_NoOverlappingStarts ==
    [][nStarts' # nStarts =>
        \A k \in Starts : startPc[k] \notin {"awaitWs", "awaitMedia"}]_vars


\* The state left alone by an inbound event that is only informational.
sessionState == <<transcript, partialTranscript, insightReport,
                  appIsRecording, connectionStatus, isRecording, isConnecting,
                  websocketRef, mediaRecorderRef, wsState, recState,
                  streamState, startPc, sent>>
\* Every asynchronous callback that was pending has run.
Quiescent ==
    /\ readers = {}
    /\ \A k \in Starts :
        /\ startPc[k] \notin {"awaitWs", "awaitMedia"}
        /\ wsState[k] \notin {"CONNECTING", "CLOSING"}
        /\ recState[k] # "stopping"

\* C11: at most one socket opened by the AudioStreamer instance is open at
\* any time, so a new start never leaves an earlier socket open beside its
\* own.
C11_AtMostOneOpenSocket ==
    Cardinality({k \in Starts : wsState[k] = "OPEN"}) <= 1

\* C12: once stopRecording has been called, no recorder of a start issued
\* before that call is capturing.
C12_StopReleasesCapture ==
    lastCall = "stop" => \A k \in 1..nStarts : recState[k] # "recording"

\* C13: after the AudioStreamer has been unmounted and every pending
\* callback has run, no socket is open, no recorder is recording and no
\* microphone stream is live.
C13_UnmountReleasesAll ==
    (~mounted /\ Quiescent) =>
        \A k \in Starts : /\ wsState[k] # "OPEN"
                          /\ recState[k] # "recording"
                          /\ streamState[k] # "live"

\* C14: a socket is created only by the step of a startRecording call, one
\* per call: nothing reconnects after a failure or a close, and the sockets
\* ever created never outnumber the start calls.
C14_NoAutoReconnect ==
    [][/\ \A k \in Starts :
            (wsState'[k] = "CONNECTING" /\ wsState[k] # "CONNECTING")
                => (lastCall' = "start" /\ nStarts' = nStarts + 1
                    /\ k = nStarts')
       /\ Cardinality({k \in Starts : wsState'[k] # "none"}) <= nStarts']_vars

\* C14 witness: a socket has ended and no socket is connecting or open.
C14_Witness ==
    /\ \E k \in Starts : wsState[k] = "CLOSED"
    /\ \A k \in Starts : wsState[k] \in {"none", "CLOSED"}

\* C15: a frame that fails to parse changes nothing the caller holds
\* (transcript, partial transcript, report, recording state, connection
\* status), and a frame that follows it is still processed.
C15_MalformedFrameDropped ==
    [][/\ lastFrame' = Malformed => UNCHANGED sessionState
       /\ (lastFrame = Malformed /\ lastFrame'.type = "final_transcript")
            => transcript' = lastFrame'.text]_vars

\* C15 witness: a malformed frame was handled while recording was shown and
\* a transcript was on display.
C15_Witness ==
    lastFrame = Malformed /\ appIsRecording /\ transcript # ""

\* C16: an event of type 'status_update', of an unrecognised type or with
\* no type leaves transcript, partial transcript, report, recording state
\* and connection status as they were.
C16_InformationalEventChangesNothing ==
    [][(lastFrame'.json /\ lastFrame'.type \in {"status_update", "unknown_kind", ""})
            => UNCHANGED sessionState]_vars

\* C16 witness: an event of an unrecognised type was handled while
\* recording.
C16_Witness ==
    lastFrame.json /\ lastFrame.type = "unknown_kind" /\ appIsRecording

\* C17: an 'error' event leaves recording state, connection status,
\* transcript, partial transcript, report and the socket as they were.
C17_ErrorEventChangesNothing ==
    [][(lastFrame'.json /\ lastFrame'.type = "error")
            => UNCHANGED sessionState]_vars

\* C18: a 'final_transcript' sets the transcript to its text and empties the
\* partial transcript; an 'insight_report' sets the report and the recording
\* state to false and leaves the transcript; a 'partial_transcript' changes
\* the partial transcript only.
C18_TranscriptAndReportEvents ==
    [][/\ (lastFrame'.json /\ lastFrame'.type = "final_transcript") =>
            /\ transcript' = lastFrame'.text
            /\ partialTranscript' = ""
            /\ UNCHANGED <<insightReport, appIsRecording, connectionStatus>>
       /\ (lastFrame'.json /\ lastFrame'.type = "insight_report") =>
            /\ insightReport' = lastFrame'.report
            /\ ~appIsRecording'
            /\ UNCHANGED <<transcript, partialTranscript, connectionStatus>>
       /\ (lastFrame'.json /\ lastFrame'.type = "partial_transcript") =>
            /\ partialTranscript' = lastFrame'.text
            /\ UNCHANGED <<transcript, insightReport, appIsRecording,
                           connectionStatus>>]_vars

\* C18 witness: a report has arrived after a final transcript, which is
\* still on display.
C18_Witness ==
    /\ lastFrame.type = "insight_report"
    /\ insightReport = "structured"
    /\ transcript \in Texts
    /\ partialTranscript = ""
    /\ ~appIsRecording

\* C19: after an 'insight_report' event something is displayed, and a report
\* that is not an object of the report schema is displayed in the raw view.
C19_EveryReportDisplayed ==
    [][(lastFrame'.json /\ lastFrame'.type = "insight_report") =>
            /\ ReportView(insightReport') # "nothing"
            /\ insightReport' # "structured"
                    => ReportView(insightReport') = "raw"]_vars

\* C20: when the AudioStreamer is torn down, the ConnectionStatus and the
\* recording state the caller holds are back at 'disconnected' and false.
C20_TeardownResetsCallerState ==
    [][(mounted /\ ~mounted')
            => (connectionStatus' = "disconnected" /\ ~appIsRecording')]_vars

\* C21: when a socket reports disconnected (onerror/onclose), no recorder is
\* recording when that callback has run: the disconnect itself stops the
\* recorder (whose stop event then releases the microphone tracks), without
\* a stop call from the user.
C21_DisconnectStopsCapture ==
    [][(\E k \in Starts : SocketEnds(k)) =>
            \A k \in Starts : recState'[k] # "recording"]_vars

\* The step is a stopRecording call made while recording.
StopWhileRecording == isRecording /\ ~isRecording'

C23_ConnectingWhileStartPending ==
    (mounted /\ \E k \in Starts : startPc[k] \in {"awaitWs", "awaitMedia"})
        => (isConnecting /\ ~ButtonRendered)

\* A 'disconnected' has been reported for attempt k: by ws.onerror or
\* ws.onclose of its socket, or by the catch block of its startRecording.
ReportedDisconnected(k) == startPc[k] = CatchPc \/ wsState[k] = "CLOSED"

\* C24: for one connection attempt 'disconnected' is reported at most once,
\* and 'connected' is not reported after 'disconnected': the reports of an
\* attempt are connecting, connected, disconnected or connecting,
\* disconnected.
C24_StatusReportedInOrder ==
    [][\A k \in Starts :
        (\/ SocketEnds(k)
         \/ (startPc[k] # CatchPc /\ startPc'[k] = CatchPc)
         \/ (wsState[k] # "OPEN" /\ wsState'[k] = "OPEN"))
            => ~ReportedDisconnected(k)]_vars

\* C25: of two frames that parse and arrive one after the other, the caller
\* has seen the first and then the second, each once: what the caller holds
\* afterwards is what handling them in that order leaves.
C25_InboundForwardedInOrder ==
    [][(lastFrame.json /\ lastFrame'.json) =>
        LET f == lastFrame
            g == lastFrame'
        IN  /\ transcript' =
                IF g.type = "final_transcript" THEN g.text
                ELSE IF f.type = "final_transcript" THEN f.text
                ELSE transcript
            /\ partialTranscript' =
                IF g.type = "partial_transcript" THEN g.text
                ELSE IF g.type = "final_transcript" THEN ""
                ELSE IF f.type = "partial_transcript" THEN f.text
                ELSE IF f.type = "final_transcript" THEN ""
                ELSE partialTranscript
            /\ insightReport' =
                IF g.type = "insight_report" THEN g.report
                ELSE IF f.type = "insight_report" THEN f.report
                ELSE insightReport]_vars

\* C25 witness: a partial transcript has just been handled after a final
\* one with another text, and both are with the caller.
C25_Witness ==
    /\ lastFrame = Event("partial_transcript", "t2", "null")
    /\ partialTranscript = "t2"
    /\ transcript = "t1"

\* C26: while the AudioStreamer is mounted, its recording flag and App's
\* recording flag agree after every task.
C26_RecordingFlagsAgree ==
    mounted => (isRecording = appIsRecording)

\* C27: whenever the socket of the most recent start is open, websocketRef
\* refers to it, so that a stop writes its 'stop' frame to the socket of the
\* recording.
C27_RefFollowsLatestSocket ==
    (nStarts > 0 /\ wsState[nStarts] = "OPEN") => websocketRef = nStarts

\* C28: the ConnectionStatus the caller holds is not 'disconnected' while
\* the socket of the most recent start is open, and not 'connected' while it
\* is closed.
C28_StatusMirrorsSocket ==
    nStarts > 0 =>
        /\ wsState[nStarts] = "OPEN" => connectionStatus # "disconnected"
        /\ wsState[nStarts] = "CLOSED" => connectionStatus # "connected"

\* C29: a frame that arrives while the socket of the most recent start is
\* connecting or closed (so on a socket of an earlier start) leaves the
\* caller's transcript, partial transcript, report and recording state as
\* they were.
C29_EarlierSocketIsSilent ==
    [][(lastFrame' # NoFrame /\ nStarts > 0
            /\ wsState[nStarts] \in {"CONNECTING", "CLOSED"})
        => UNCHANGED <<transcript, partialTranscript, insightReport,
                       appIsRecording>>]_vars

\* C30: when a start has ended in its catch block, the stream its
\* getUserMedia call acquired is not live.
C30_FailedStartReleasesStream ==
    \A k \in Starts : startPc[k] = CatchPc => streamState[k] # "live"

====
